---- MODULE Spec2Model ----
(***************************************************************************)
(* A model of WipeDetector: the statistical detectors and the rule-based   *)
(* classifier of analyzer.py, the chunk reader of scanner.py and the scan  *)
(* loops of detector.py / app.py.                                          *)
(*                                                                         *)
(* Number representation.  Python floats are modelled as scaled integers:  *)
(*   entropy, entropy variance      in units of 1/10000  (round(x, 4))     *)
(*   percentages, confidences, chi2 in units of 1/100    (round(x, 2))     *)
(* Rounding is Python's round(): to nearest, ties to even, applied to the  *)
(* exact rational value.  log2 is a 14-bit binary fixed-point logarithm;   *)
(* entropies agree with math.log2 to within 1/10000, and are exact for     *)
(* distributions whose counts are powers of two; an entropy variance is    *)
(* computed from the rounded entropies and agrees to within 1/10000.       *)
(* A Python bytes object is a sequence over 0..255; data[i] in Python is   *)
(* data[i + 1] here.                                                       *)
(***************************************************************************)
EXTENDS Integers, Sequences, FiniteSets, TLC

VARIABLES
    pc,             \* control position of the operation being modelled
    data,           \* the byte buffer handed to a detector / analyze_region
    args,           \* further arguments of the call (offset, chunk_size, classifier inputs)
    out,            \* the value returned by the call
    target,         \* scan: content of the file being read, as a byte sequence
    chunk_size,     \* scan: bytes per read
    MIN_CONFIDENCE, \* scan: acceptance threshold (detector.py global / run_scan min_conf)
    offset,         \* scan: scan_file's running offset
    analyzed,       \* scan: records of the regions analyzed so far, in order
    results,        \* scan: the detection list being built
    walk,           \* scan_slack: the files os.walk has still to visit
    stdout          \* scan: the diagnostics printed by the reader

vars == <<pc, data, args, out, target, chunk_size, MIN_CONFIDENCE, offset, analyzed,
          results, walk, stdout>>

-----------------------------------------------------------------------------
(* Arithmetic helpers                                                      *)

Min(a, b) == IF a < b THEN a ELSE b
Max(a, b) == IF a > b THEN a ELSE b

\* round(a / b) for a >= 0, b > 0: nearest integer, ties to even (Python round)
RoundDiv(a, b) ==
    LET q == a \div b
        r == a % b
    IN  IF 2 * r > b \/ (2 * r = b /\ q % 2 = 1) THEN q + 1 ELSE q

\* the value a float-returning function yields where the Python code raises
\* ZeroDivisionError (every proper value of those functions is >= 0)
ZeroDivisionError == 0 - 1

\* what a dict-returning function yields where the Python code raises
Raise(e) == [raised |-> e]
Raised(r) == "raised" \in DOMAIN r

\* An optional value (Python: a value or None) is the set of its values:
\* None is the empty set, a present value x is {x}
None == {}
Some(x) == {x}
The(o) == CHOOSE v \in o : TRUE

\* round(base + r / n) for 0 <= r < n: nearest integer, ties to even
RoundParts(base, r, n) ==
    IF 2 * r > n \/ (2 * r = n /\ base % 2 = 1) THEN base + 1 ELSE base

RECURSIVE SumTo(_, _, _)
\* sum of F(i) for i in lo..hi (split in halves: the recursion stays shallow)
SumTo(F(_), lo, hi) ==
    IF lo > hi THEN 0
    ELSE IF lo = hi THEN F(lo)
    ELSE LET mid == (lo + hi) \div 2
         IN  SumTo(F, lo, mid) + SumTo(F, mid + 1, hi)

-----------------------------------------------------------------------------
(* math.log2 in binary fixed point                                         *)

ONE == 2^14

RECURSIVE FloorLog2(_)
FloorLog2(x) == IF x < 2 THEN 0 ELSE 1 + FloorLog2(x \div 2)

RECURSIVE FracBits(_, _)
\* the fractional bits j..14 of log2 of the mantissa m (ONE <= m < 2*ONE)
FracBits(m, j) ==
    IF j > 14 THEN 0
    ELSE LET s == (m * m + ONE \div 2) \div ONE
         IN  IF s >= 2 * ONE
                THEN 2^(14 - j) + FracBits((s + 1) \div 2, j + 1)
                ELSE FracBits(s, j + 1)

\* log2(x) * 2^14 for an integer 1 <= x <= 2^14
Log2(x) ==
    LET k == FloorLog2(x)
    IN  k * ONE + FracBits((x * ONE) \div (2^k), 1)

-----------------------------------------------------------------------------
(* collections.Counter and bytes.count                                     *)

\* data.count(b)
count(d, b) == Cardinality({i \in DOMAIN d : d[i] = b})

RECURSIVE Histogram(_, _, _, _)
\* the occurrence counts, as a sequence, of the byte values lo..hi among the
\* positions S of d (S holds only positions whose byte is in lo..hi)
Histogram(d, S, lo, hi) ==
    IF lo = hi THEN <<Cardinality(S)>>
    ELSE IF S = {} THEN [b \in 1..(hi - lo + 1) |-> 0]
    ELSE LET mid == (lo + hi) \div 2
             low == {i \in S : d[i] <= mid}
         IN  Histogram(d, low, lo, mid) \o Histogram(d, S \ low, mid + 1, hi)

\* Counter(data): the occurrence count of every byte value 0..255 (0 when
\* absent, as freq.get(b, 0) reads it; freq.values() are the non-zero ones)
Counter(d) ==
    LET h == Histogram(d, DOMAIN d, 0, 255)
    IN  [b \in 0..255 |-> h[b + 1]]

-----------------------------------------------------------------------------
(* analyzer.py: entropy and randomness                                     *)

\* entropy_sum with the counts left undivided inside the logarithm and the sign
\* kept: sum((c / length) * math.log2(c))
entropy_sum_undivided(freq, length) ==
    IF length = 0 THEN ZeroDivisionError
    ELSE LET term(b) == IF freq[b] = 0 THEN 0 ELSE freq[b] * Log2(freq[b])
             num == SumTo(term, 0, 255)
         IN  RoundDiv((num \div length) * 10000 + ((num % length) * 10000) \div length, ONE)

\* -sum((c / length) * math.log2(c / length) for c in freq.values()), which is
\* log2(length) - sum(c * log2(c)) / length, rounded to 4 decimals
entropy_sum(freq, length) ==
    IF length = 0 THEN ZeroDivisionError
    ELSE LET term(b) == IF freq[b] = 0 THEN 0 ELSE freq[b] * Log2(freq[b])
             num == length * Log2(length) - SumTo(term, 0, 255)
             q   == num \div length
             r   == num % length
         IN  RoundDiv(q * 10000 + (r * 10000) \div length, ONE)

\* calculate_entropy without the test for an empty buffer
calculate_entropy_unguarded(d) == entropy_sum(Counter(d), Len(d))

calculate_entropy(d) ==
    IF d = <<>> THEN 0
    ELSE entropy_sum(Counter(d), Len(d))

\* chi2 = sum((freq.get(b, 0) - expected) ** 2 / expected for b in range(256))
\* with expected = len(data) / 256.0, i.e. 256 * sum(f^2) / n - n, held exactly
\* as whole + rem / n with 0 <= rem < n
chi2_parts(freq, n) ==
    LET sq(b) == freq[b] * freq[b]
        S == SumTo(sq, 0, 255)
        t == 256 * (S % n)
    IN  [whole |-> 256 * (S \div n) - n + t \div n, rem |-> t % n]

\* chi2 < c for an integer c
chi2_lt(chi2, c) == chi2.whole < c

\* round(chi2, 2), in hundredths
chi_square_round(chi2, n) ==
    RoundParts(100 * chi2.whole + (100 * chi2.rem) \div n, (100 * chi2.rem) % n, n)

\* the test against a critical value of 350
is_random_350(chi2) == chi2_lt(chi2, 350)

\* is_random = chi2 < 310: the critical value for df = 255 at alpha = 0.05
is_random_of(chi2) == chi2_lt(chi2, 310)

\* the rough p-value bucket
p_estimate_of(chi2) ==
    IF chi2_lt(chi2, 270) THEN ">0.20 (strongly uniform)"
    ELSE IF chi2_lt(chi2, 293) THEN ">0.10 (likely uniform)"
    ELSE IF chi2_lt(chi2, 310) THEN ">0.05 (possibly uniform)"
    ELSE IF chi2_lt(chi2, 350) THEN "<0.05 (non-uniform)"
    ELSE "<0.01 (strongly non-uniform)"

chi_square_dict(chi2, n) ==
    [chi_square |-> chi_square_round(chi2, n),
     is_random  |-> is_random_of(chi2),
     p_estimate |-> p_estimate_of(chi2)]

chi_square_body(d) ==
    IF Len(d) = 0 THEN Raise("ZeroDivisionError")
    ELSE chi_square_dict(chi2_parts(Counter(d), Len(d)), Len(d))

\* the sentinel for short buffers
too_short ==
    [chi_square |-> 0, is_random |-> FALSE, p_estimate |-> "n/a (too short)"]

\* chi_square_test with the minimum length of detect_repeating_pattern
chi_square_test_min128(d) ==
    IF Len(d) < 128 THEN too_short ELSE chi_square_body(d)

chi_square_test(d) ==
    IF Len(d) < 256 THEN too_short ELSE chi_square_body(d)

-----------------------------------------------------------------------------
(* analyzer.py: simple pattern detectors                                   *)

\* round((c / n) * 100, 2), in hundredths
Percent(c, n) == IF n = 0 THEN ZeroDivisionError ELSE RoundDiv(c * 10000, n)

\* detect_zero_pattern counting the byte 0xFF
detect_zero_counts_ones(d) ==
    IF d = <<>> THEN 0
    ELSE Percent(count(d, 255), Len(d))

\* detect_zero_pattern with the minimum length of detect_repeating_pattern
detect_zero_min128(d) ==
    IF Len(d) < 128 THEN 0
    ELSE Percent(count(d, 0), Len(d))

detect_zero_pattern(d) ==
    IF d = <<>> THEN 0
    ELSE Percent(count(d, 0), Len(d))

detect_one_pattern(d) ==
    IF d = <<>> THEN 0
    ELSE Percent(count(d, 255), Len(d))

\* bytes.hex(): two lower-case hexadecimal digits per byte
HexDigits == <<"0", "1", "2", "3", "4", "5", "6", "7",
               "8", "9", "a", "b", "c", "d", "e", "f">>
hex(b) ==
    [i \in 1..(2 * Len(b)) |->
        IF i % 2 = 1 THEN HexDigits[(b[(i + 1) \div 2] \div 16) + 1]
                     ELSE HexDigits[(b[i \div 2] % 16) + 1]]

\* sum(1 for i in range(period, len(data)) if data[i] == data[i % period])
matches(d, period) ==
    Cardinality({i \in period..(Len(d) - 1) : d[i + 1] = d[(i % period) + 1]})

\* the candidate periods: range(1, min(65, len(data) // 4))
periods(d) == 1..(Min(65, Len(d) \div 4) - 1)

RECURSIVE best_in(_, _, _)
\* the loop over the candidate periods lo..hi: the period of the highest match
\* count, the first such one (a later period replaces the best only when its
\* score is strictly greater)
best_in(d, lo, hi) ==
    IF lo = hi THEN [period |-> lo, matches |-> matches(d, lo)]
    ELSE LET mid   == (lo + hi) \div 2
             left  == best_in(d, lo, mid)
             right == best_in(d, mid + 1, hi)
         IN  IF right.matches > left.matches THEN right ELSE left

\* best_period and the match count of best_score after the loop: None and 0
\* when no period scores above the initial best_score = 0.0
best_of(d) ==
    IF periods(d) = {} THEN [period |-> None, matches |-> 0]
    ELSE LET b == best_in(d, 1, Min(65, Len(d) \div 4) - 1)
         IN  IF b.matches > 0 THEN [period |-> Some(b.period), matches |-> b.matches]
             ELSE [period |-> None, matches |-> 0]

\* best_score >= 0.99, for matches out of n positions
score_reaches_99(m, n) == m * 100 >= 99 * n

\* best_score >= 0.95 with best_score = matches / len(data)
score_reaches(m, n) == m * 100 >= 95 * n

\* the result dict, from best_period and the match count of best_score;
\* confidence is round(best_score * 100, 2)
repeating_dict(d, best) ==
    IF score_reaches(best.matches, Len(d)) /\ best.period # None
        THEN [found      |-> TRUE,
              pattern    |-> Some(hex(SubSeq(d, 1, The(best.period)))),
              period     |-> best.period,
              confidence |-> RoundDiv(best.matches * 10000, Len(d))]
        ELSE [found |-> FALSE, pattern |-> None, period |-> None,
              confidence |-> RoundDiv(best.matches * 10000, Len(d))]

repeating_body(d) ==
    IF Len(d) = 0 THEN Raise("ZeroDivisionError")
    ELSE repeating_dict(d, best_of(d))

\* detect_repeating_pattern without the minimum length
detect_repeating_any_length(d) == repeating_body(d)

detect_repeating_pattern(d) ==
    IF Len(d) < 128
        THEN [found |-> FALSE, pattern |-> None, period |-> None, confidence |-> 0]
        ELSE repeating_body(d)

-----------------------------------------------------------------------------
(* analyzer.py: multi-pass heuristics                                      *)

RECURSIVE chunk_list_with_tail(_, _, _)
\* the sub-chunks at range(0, len(data), chunk_size): the last one may be partial
chunk_list_with_tail(d, cs, i) ==
    IF i >= Len(d) THEN <<>>
    ELSE <<SubSeq(d, i + 1, Min(i + cs, Len(d)))>> \o chunk_list_with_tail(d, cs, i + cs)

RECURSIVE chunk_list(_, _, _)
\* [data[i:i + chunk_size] for i in range(0, len(data) - chunk_size, chunk_size)],
\* from start offset i on
chunk_list(d, cs, i) ==
    IF i >= Len(d) - cs THEN <<>>
    ELSE <<SubSeq(d, i + 1, Min(i + cs, Len(d)))>> \o chunk_list(d, cs, i + cs)

RECURSIVE entropy_list(_)
\* [calculate_entropy(c) for c in chunks]
entropy_list(chunks) ==
    IF chunks = <<>> THEN <<>>
    ELSE <<calculate_entropy(Head(chunks))>> \o entropy_list(Tail(chunks))

\* the labels with ones for the broad band
phase_label_ones(e) ==
    IF e < 1000 THEN "zeros"
    ELSE IF e > 78000 THEN "random"
    ELSE IF 79000 > e /\ e > 800 THEN "ones"
    ELSE "mixed"

\* the labels with the broad band tested first
phase_label_band_first(e) ==
    IF 79000 > e /\ e > 800 THEN "ones_or_pattern"
    ELSE IF e < 1000 THEN "zeros"
    ELSE IF e > 78000 THEN "random"
    ELSE "mixed"

\* the labels with the band between the two other thresholds, 0.1 < e < 7.8
phase_label_narrow_band(e) ==
    IF e < 1000 THEN "zeros"
    ELSE IF e > 78000 THEN "random"
    ELSE IF 78000 > e /\ e > 1000 THEN "ones_or_pattern"
    ELSE "mixed"

\* the phase label of a sub-chunk of entropy e
phase_label(e) ==
    IF e < 1000 THEN "zeros"
    ELSE IF e > 78000 THEN "random"
    ELSE IF 79000 > e /\ e > 800 THEN "ones_or_pattern"
    ELSE "mixed"

\* phases.append(label) for every sub-chunk
append_phase_always(phases, label) == Append(phases, label)

\* if not phases or phases[-1] != label: phases.append(label)
append_phase(phases, label) ==
    IF phases = <<>> \/ phases[Len(phases)] # label THEN Append(phases, label) ELSE phases

RECURSIVE phase_list(_, _)
\* the labels of the entropies es appended to phases, a label being appended
\* only when it differs from the last one appended
phase_list(phases, es) ==
    IF es = <<>> THEN phases
    ELSE phase_list(append_phase(phases, phase_label(Head(es))), Tail(es))

add_parts(a, b) == [hi |-> a.hi + b.hi, mid |-> a.mid + b.mid, lo |-> a.lo + b.lo]

\* |len(entropies) * e - sum(entropies)|: the deviation of e from the mean,
\* times len(entropies)
deviation(k, total, e) == IF k * e >= total THEN k * e - total ELSE total - k * e

\* the square of a deviation x, split as hi * 10^8 + mid * 10^4 + lo
square_parts(x) ==
    [hi  |-> (x \div 10000) * (x \div 10000),
     mid |-> 2 * (x \div 10000) * (x % 10000),
     lo  |-> (x % 10000) * (x % 10000)]

RECURSIVE sum_squares(_, _, _, _)
\* the sum of the squared deviations of es[i..Len(es)], split as square_parts
sum_squares(es, k, total, i) ==
    IF i > Len(es) THEN [hi |-> 0, mid |-> 0, lo |-> 0]
    ELSE add_parts(square_parts(deviation(k, total, es[i])),
                   sum_squares(es, k, total, i + 1))

\* variance = sum((e - mean_e) ** 2 for e in entropies) / len(entropies), held
\* exactly: variance * 10000 * k^3 = whole + rem / 10000, k = len(entropies)
variance_of(sq, k) ==
    [whole |-> sq.hi * 10000 + sq.mid + sq.lo \div 10000,
     rem   |-> sq.lo % 10000,
     k3    |-> k * k * k]

RECURSIVE sum_seq(_, _)
\* sum(entropies), from index i on
sum_seq(es, i) == IF i > Len(es) THEN 0 ELSE es[i] + sum_seq(es, i + 1)

variance_parts(es) ==
    variance_of(sum_squares(es, Len(es), sum_seq(es, 1), 1), Len(es))

\* variance > c for c in units of 1/10
variance_gt(v, c) ==
    \/ v.whole > c * 1000 * v.k3
    \/ v.whole = c * 1000 * v.k3 /\ v.rem > 0

\* round(q + (r + rem / 10000) / k3): nearest, ties to even
round_ratio(q, r, rem, k3) ==
    IF \/ 2 * (r * 10000 + rem) > k3 * 10000
       \/ (2 * (r * 10000 + rem) = k3 * 10000 /\ q % 2 = 1)
        THEN q + 1 ELSE q

\* round(variance, 4), in units of 1/10000
variance_round(v) == round_ratio(v.whole \div v.k3, v.whole % v.k3, v.rem, v.k3)

\* variance_gt with equality allowed: variance >= c
variance_ge(v, c) == v.whole >= c * 1000 * v.k3

\* the confidence with each threshold reached at equality
variance_confidence_ge(variance) ==
    IF variance_ge(variance, 40) THEN 9000
    ELSE IF variance_ge(variance, 20) THEN 7500
    ELSE IF variance_ge(variance, 5) THEN 5000
    ELSE 1000

\* the confidence based on the variance magnitude
variance_confidence(variance) ==
    IF variance_gt(variance, 40) THEN 9000
    ELSE IF variance_gt(variance, 20) THEN 7500
    ELSE IF variance_gt(variance, 5) THEN 5000
    ELSE 1000

multi_pass_result(entropies, variance) ==
    [confidence       |-> variance_confidence(variance),
     phases           |-> phase_list(<<>>, entropies),
     entropy_variance |-> variance_round(variance)]

\* mean_e = sum(entropies) / len(entropies) and what follows it
multi_pass_stats(entropies) ==
    IF Len(entropies) = 0 THEN Raise("ZeroDivisionError")
    ELSE multi_pass_result(entropies, variance_parts(entropies))

\* the statistics taken over the trailing partial sub-chunk as well
multi_pass_body_with_tail(d, cs) ==
    multi_pass_stats(entropy_list(chunk_list_with_tail(d, cs, 0)))

multi_pass_body(d, cs) == multi_pass_stats(entropy_list(chunk_list(d, cs, 0)))

\* detect_multi_pass with the sentinel also for a region of exactly 4 sub-chunks
detect_multi_pass_le(d, cs) ==
    IF Len(d) <= cs * 4
        THEN [confidence |-> 0, phases |-> <<>>, entropy_variance |-> 0]
        ELSE multi_pass_body(d, cs)

detect_multi_pass(d, cs) ==
    IF Len(d) < cs * 4
        THEN [confidence |-> 0, phases |-> <<>>, entropy_variance |-> 0]
        ELSE multi_pass_body(d, cs)

-----------------------------------------------------------------------------
(* analyzer.py: algorithm classifier                                       *)

\* set(multi.get("phases", []))
phase_set_of(multi) == {multi.phases[i] : i \in DOMAIN multi.phases}

\* repeating['pattern'] in full
hex_whole(pattern) == pattern

\* repeating['pattern'][:16]
hex16(pattern) == SubSeq(pattern, 1, Min(16, Len(pattern)))

\* round(entropy / 8.0 * 1000, 1), in hundredths
random_confidence_1000(entropy) == 10 * RoundDiv(entropy, 8)

\* round(entropy / 8.0 * 100, 1), in hundredths
random_confidence(entropy) == 10 * RoundDiv(entropy, 80)

\* the multi-pass rules with entropy_variance >= 3.5 for the 7-pass verdict
multi_pass_rules_ge(multi, phase_set, phase_count) ==
    IF "zeros" \in phase_set /\ "random" \in phase_set /\ phase_count >= 2
        THEN IF "ones" \in phase_set \/ multi.entropy_variance >= 35000
                THEN [algorithm  |-> "dod_5220_7pass",
                      label      |-> <<"DoD 5220.22-M 7-pass / RCMP TSSIT">>,
                      confidence |-> multi.confidence]
                ELSE [algorithm  |-> "dod_5220_3pass",
                      label      |-> <<"DoD 5220.22-M 3-pass">>,
                      confidence |-> multi.confidence]
    ELSE IF phase_count >= 4
        THEN [algorithm  |-> "gutmann_35pass",
              label      |-> <<"Gutmann 35-pass (estimated)">>,
              confidence |-> Min(multi.confidence, 7000)]
    ELSE [algorithm  |-> "unknown",
          label      |-> <<"Unknown / unrecognized pattern">>,
          confidence |-> 0]

multi_pass_rules(multi, phase_set, phase_count) ==
    IF "zeros" \in phase_set /\ "random" \in phase_set /\ phase_count >= 2
        THEN IF "ones" \in phase_set \/ multi.entropy_variance > 35000
                THEN [algorithm  |-> "dod_5220_7pass",
                      label      |-> <<"DoD 5220.22-M 7-pass / RCMP TSSIT">>,
                      confidence |-> multi.confidence]
                ELSE [algorithm  |-> "dod_5220_3pass",
                      label      |-> <<"DoD 5220.22-M 3-pass">>,
                      confidence |-> multi.confidence]
    ELSE IF phase_count >= 4
        THEN [algorithm  |-> "gutmann_35pass",
              label      |-> <<"Gutmann 35-pass (estimated)">>,
              confidence |-> Min(multi.confidence, 7000)]
    ELSE [algorithm  |-> "unknown",
          label      |-> <<"Unknown / unrecognized pattern">>,
          confidence |-> 0]

\* the cascade with the repeating-pattern and multi-pass rules tried before the
\* single-pass ones
classify_reordered(entropy, zero_conf, one_conf, chi, multi, repeating) ==
    LET phase_set   == phase_set_of(multi)
        phase_count == Cardinality(phase_set)
        multi_rule  == multi_pass_rules(multi, phase_set, phase_count)
    IN  IF repeating.found
            THEN [algorithm  |-> "alternating_pattern",
                  label      |-> <<"Repeating pattern (period=", The(repeating.period),
                                   ", hex=", hex16(The(repeating.pattern)), ")">>,
                  confidence |-> repeating.confidence]
        ELSE IF multi.confidence >= 7000 /\ multi_rule.algorithm # "unknown"
            THEN multi_rule
        ELSE IF zero_conf >= 9900
            THEN [algorithm |-> "simple_zero", label |-> <<"Zero-fill (0x00)">>,
                  confidence |-> zero_conf]
        ELSE IF one_conf >= 9900
            THEN [algorithm |-> "simple_one", label |-> <<"One-fill (0xFF)">>,
                  confidence |-> one_conf]
        ELSE IF entropy >= 75000 /\ chi.is_random
            THEN [algorithm |-> "random_only", label |-> <<"Random-fill (single pass)">>,
                  confidence |-> random_confidence(entropy)]
        ELSE [algorithm  |-> "unknown",
              label      |-> <<"Unknown / unrecognized pattern">>,
              confidence |-> 0]

classify_wiping_algorithm(entropy, zero_conf, one_conf, chi, multi, repeating) ==
    LET phase_set   == phase_set_of(multi)
        phase_count == Cardinality(phase_set)
    IN  IF zero_conf >= 9900
            THEN [algorithm |-> "simple_zero", label |-> <<"Zero-fill (0x00)">>,
                  confidence |-> zero_conf]
        ELSE IF one_conf >= 9900
            THEN [algorithm |-> "simple_one", label |-> <<"One-fill (0xFF)">>,
                  confidence |-> one_conf]
        ELSE IF entropy >= 75000 /\ chi.is_random
            THEN [algorithm |-> "random_only", label |-> <<"Random-fill (single pass)">>,
                  confidence |-> random_confidence(entropy)]
        ELSE IF repeating.found
            THEN [algorithm  |-> "alternating_pattern",
                  label      |-> <<"Repeating pattern (period=", The(repeating.period),
                                   ", hex=", hex16(The(repeating.pattern)), ")">>,
                  confidence |-> repeating.confidence]
        ELSE IF multi.confidence >= 7000
            THEN multi_pass_rules(multi, phase_set, phase_count)
        ELSE [algorithm  |-> "unknown",
              label      |-> <<"Unknown / unrecognized pattern">>,
              confidence |-> 0]

-----------------------------------------------------------------------------
(* analyzer.py: full region analysis                                       *)

\* the sub-chunk size analyze_region leaves to detect_multi_pass's default
DefaultSubChunk == 512

\* pattern_type with random decided on the entropy alone
pattern_type_no_chi(entropy, zero_conf, one_conf, chi, multi, repeating) ==
    IF zero_conf >= 9900 THEN "zero_fill"
    ELSE IF one_conf >= 9900 THEN "one_fill"
    ELSE IF entropy >= 75000 THEN "random"
    ELSE IF repeating.found THEN "repeating"
    ELSE IF multi.confidence >= 5000 THEN "multi_pass"
    ELSE "unknown"

\* pattern_type with the classifier's multi-pass threshold of 70.0
pattern_type_70(entropy, zero_conf, one_conf, chi, multi, repeating) ==
    IF zero_conf >= 9900 THEN "zero_fill"
    ELSE IF one_conf >= 9900 THEN "one_fill"
    ELSE IF entropy >= 75000 /\ chi.is_random THEN "random"
    ELSE IF repeating.found THEN "repeating"
    ELSE IF multi.confidence >= 7000 THEN "multi_pass"
    ELSE "unknown"

pattern_type_of(entropy, zero_conf, one_conf, chi, multi, repeating) ==
    IF zero_conf >= 9900 THEN "zero_fill"
    ELSE IF one_conf >= 9900 THEN "one_fill"
    ELSE IF entropy >= 75000 /\ chi.is_random THEN "random"
    ELSE IF repeating.found THEN "repeating"
    ELSE IF multi.confidence >= 5000 THEN "multi_pass"
    ELSE "unknown"

\* the consolidated result dict
region_record(off, size, pattern_type, algo, entropy, chi, zero_conf, one_conf, repeating, multi) ==
    [offset          |-> off,
     size            |-> size,
     pattern_type    |-> pattern_type,
     confidence      |-> algo.confidence,
     algorithm       |-> algo.algorithm,
     algorithm_label |-> algo.label,
     entropy         |-> entropy,
     chi_square      |-> chi.chi_square,
     chi_is_random   |-> chi.is_random,
     zero_confidence |-> zero_conf,
     one_confidence  |-> one_conf,
     repeating       |-> repeating,
     multi_pass      |-> multi]

\* analyze_region once the detectors have run; an exception raised by a
\* detector propagates
consolidate(off, size, entropy, chi, zero_conf, one_conf, repeating, multi) ==
    IF \/ entropy = ZeroDivisionError \/ Raised(chi)
       \/ zero_conf = ZeroDivisionError \/ one_conf = ZeroDivisionError
       \/ Raised(repeating) \/ Raised(multi)
        THEN Raise("ZeroDivisionError")
    ELSE region_record(off, size,
                       pattern_type_of(entropy, zero_conf, one_conf, chi, multi, repeating),
                       classify_wiping_algorithm(entropy, zero_conf, one_conf, chi,
                                                 multi, repeating),
                       entropy, chi, zero_conf, one_conf, repeating, multi)

analyze_region(d, off) ==
    consolidate(off, Len(d), calculate_entropy(d), chi_square_test(d),
                detect_zero_pattern(d), detect_one_pattern(d),
                detect_repeating_pattern(d), detect_multi_pass(d, DefaultSubChunk))

-----------------------------------------------------------------------------
(* Byte buffers: the contents generate_samples.py writes                   *)

\* gen_zero / gen_one: b"\x00" * size, b"\xFF" * size
Fill(b, n) == [i \in 1..n |-> b]

\* gen_alternating / gen_novelty_haha: (unit * (size // len(unit) + 1))[:size]
Cycle(unit, n) == [i \in 1..n |-> unit[((i - 1) % Len(unit)) + 1]]

\* gen_random: os.urandom(size) is any byte string; the representative used is
\* the one in which the 256 byte values follow each other in turn
Uniform(n) == [i \in 1..n |-> (i - 1) % 256]

RECURSIVE Concat(_)
\* b"".join(parts)
Concat(parts) == IF parts = <<>> THEN <<>> ELSE Head(parts) \o Concat(Tail(parts))

\* a second representative of os.urandom(size): scattered byte values, whose
\* counts are as uneven as those of a typical random draw
Scrambled(n) ==
    [i \in 1..n |-> (((((i - 1) * (i - 1)) % 65521) * 31 + (i - 1) * 17) % 8191) % 256]

gen_zero(size) == Fill(0, size)
gen_one(size) == Fill(255, size)

\* os.urandom(size), one of its outcomes by kind
gen_random(kind, size) == IF kind = "even" THEN Uniform(size) ELSE Scrambled(size)

RandomKinds == {"even", "typical"}

gen_dod_3pass(kind, size) ==
    gen_zero(size \div 3) \o gen_one(size \div 3)
        \o gen_random(kind, size - 2 * (size \div 3))

gen_alternating(size) == Cycle(<<170, 85>>, size)

\* b"haha-"
haha == <<104, 97, 104, 97, 45>>

gen_novelty_haha(size) == Cycle(haha, size)

\* zone i of gen_gutmann_sim
gutmann_zone(kind, i, sec) ==
    IF i % 3 = 0 THEN gen_zero(sec)
    ELSE IF i % 3 = 1 THEN gen_one(sec)
    ELSE gen_random(kind, sec)

\* 10 zones of size // 10 bytes and a random remainder
gen_gutmann_sim(kind, size) ==
    Concat([i \in 1..10 |-> gutmann_zone(kind, i - 1, size \div 10)])
        \o gen_random(kind, size - (size \div 10) * 10)

-----------------------------------------------------------------------------
(* The classifier on its own: classify_wiping_algorithm applied to every   *)
(* combination of statistics drawn from the sets below                     *)

NoScan ==
    /\ target = <<>> /\ chunk_size = 0 /\ MIN_CONFIDENCE = 0
    /\ offset = 0 /\ analyzed = <<>> /\ results = <<>>
    /\ walk = <<>> /\ stdout = <<>>

ScanVars == <<target, chunk_size, MIN_CONFIDENCE, offset, analyzed, results, walk, stdout>>

EntropyVals == {0, 74999, 75000, 80000}
ConfVals    == {0, 9899, 9900}

ChiVals ==
    {[chi_square |-> 0, is_random |-> FALSE, p_estimate |-> "n/a (too short)"],
     [chi_square |-> 25500, is_random |-> TRUE, p_estimate |-> ">0.20 (strongly uniform)"]}

RepeatingVals ==
    {[found |-> FALSE, pattern |-> None, period |-> None, confidence |-> 9400],
     [found |-> TRUE, pattern |-> Some(hex(<<170, 85>>)), period |-> Some(2),
      confidence |-> 9900],
     [found |-> TRUE, pattern |-> Some(hex(<<1, 2, 3, 4, 5, 6, 7, 8, 9>>)),
      period |-> Some(9), confidence |-> 9500]}

PhaseVals ==
    {<<>>, <<"zeros">>, <<"zeros", "random">>, <<"random", "zeros", "random">>,
     <<"zeros", "ones", "random">>, <<"zeros", "ones_or_pattern", "mixed">>,
     <<"zeros", "ones_or_pattern", "mixed", "ones">>,
     <<"random", "ones_or_pattern", "mixed", "ones", "random">>,
     <<"zeros", "random", "ones_or_pattern", "mixed">>}

MultiVals ==
    [confidence : {0, 5000, 6999, 7000, 9000, 10000},
     phases : PhaseVals,
     entropy_variance : {0, 35000, 35001}]

ClassifyInit ==
    /\ pc = "start"
    /\ data = <<>>
    /\ args \in [entropy : EntropyVals, zero_conf : ConfVals, one_conf : ConfVals,
                  chi : ChiVals, multi : MultiVals, repeating : RepeatingVals]
    /\ out = <<>>
    /\ NoScan

Classify ==
    /\ pc = "start"
    /\ out' = classify_wiping_algorithm(args.entropy, args.zero_conf, args.one_conf,
                                        args.chi, args.multi, args.repeating)
    /\ pc' = "done"
    /\ UNCHANGED <<data, args, ScanVars>>

ClassifyNext == Classify

SpecClassify == ClassifyInit /\ [][ClassifyNext]_vars

-----------------------------------------------------------------------------
(* scanner.py: the chunk reader and the slack reader                       *)

\* fh.read(chunk_size) at file position off: the next chunk_size bytes, fewer
\* at the end of the file, none past it
read(content, off, size) == SubSeq(content, off + 1, Min(off + size, Len(content)))

\* _file_slack_data: the tail of the file's last cluster
file_slack_data(content, cluster_size) ==
    LET file_size   == Len(content)
        slack_bytes == cluster_size - (file_size % cluster_size)
        \* fh.seek(max(0, file_size - cluster_size)); data = fh.read()
        last        == SubSeq(content, Max(0, file_size - cluster_size) + 1, file_size)
    IN  IF file_size = 0 THEN <<>>
        ELSE IF slack_bytes = cluster_size THEN <<>>
        \* data[-(slack_bytes):]
        ELSE SubSeq(last, Max(0, Len(last) - slack_bytes) + 1, Len(last))

-----------------------------------------------------------------------------
(* detector.py / app.py: the scan loops                                    *)

\* the module-level default of MIN_CONFIDENCE, and of run_scan's min_conf
DefaultMinConfidence == 4000

\* the threshold a scan filters with: the global MIN_CONFIDENCE in
\* scan_image and scan_slack, the parameter min_conf in run_scan
threshold_of(fn, a, global) == IF fn = "run_scan" THEN a.min_conf ELSE global

\* the filter with a strict comparison against the threshold
accepted_strict(result, threshold) ==
    result.pattern_type # "unknown" /\ result.confidence > threshold

\* result["pattern_type"] != "unknown" and result["confidence"] >= MIN_CONFIDENCE
accepted(result, threshold) ==
    result.pattern_type # "unknown" /\ result.confidence >= threshold

\* results.append(result) for every record of a known pattern type
collect_typed(res, result, threshold) ==
    IF result.pattern_type # "unknown" THEN Append(res, result) ELSE res

\* results.append(result) when the record is accepted
collect(res, result, threshold) ==
    IF accepted(result, threshold) THEN Append(res, result) ELSE res

\* main(): MIN_CONFIDENCE = args.min_confidence, then the scan mode is chosen;
\* run_scan is entered from the dashboard with min_conf as a parameter
Start ==
    /\ pc = "main"
    /\ MIN_CONFIDENCE' = IF args.fn = "run_scan" THEN MIN_CONFIDENCE ELSE args.min_conf
    /\ pc' = "scan"
    /\ UNCHANGED <<data, args, out, target, chunk_size, offset, analyzed, results,
                   walk, stdout>>

\* one iteration of `for offset, chunk in scan_file(target, chunk_size)` in
\* scan_image: a chunk is read, analyzed and collected; the empty read ends
\* the generator and scan_image returns results
ScanImageStep ==
    /\ pc = "scan"
    /\ args.fn = "scan_image"
    /\ LET chunk == read(target, offset, chunk_size)
       IN  IF chunk = <<>>
              THEN /\ pc' = "done"
                   /\ out' = results
                   /\ UNCHANGED <<data, offset, analyzed, results>>
              ELSE LET result == analyze_region(chunk, offset)
                   IN  /\ data' = chunk
                       /\ analyzed' = Append(analyzed, result)
                       /\ results' = collect(results, result, MIN_CONFIDENCE)
                       /\ offset' = offset + Len(chunk)
                       /\ UNCHANGED <<pc, out>>
    /\ UNCHANGED <<args, target, chunk_size, MIN_CONFIDENCE, walk, stdout>>

\* one iteration of the loop of run_scan, which stops at limit_mb megabytes
\* when a limit is given and yields the list after every region
RunScanStep ==
    /\ pc = "scan"
    /\ args.fn = "run_scan"
    /\ LET chunk == read(target, offset, chunk_size)
       IN  IF \/ chunk = <<>>
              \/ (args.limit_mb # 0 /\ args.bytes_read >= args.limit_mb * 1024 * 1024)
              THEN /\ pc' = "done"
                   /\ UNCHANGED <<data, args, out, offset, analyzed, results>>
              ELSE LET result == analyze_region(chunk, offset)
                   IN  /\ data' = chunk
                       /\ args' = [args EXCEPT !.bytes_read = @ + Len(chunk)]
                       /\ analyzed' = Append(analyzed, result)
                       /\ results' = collect(results, result, args.min_conf)
                       /\ out' = results'
                       /\ offset' = offset + Len(chunk)
                       /\ UNCHANGED pc
    /\ UNCHANGED <<target, chunk_size, MIN_CONFIDENCE, walk, stdout>>

\* the failure left uncaught: the exception reaches the caller of the scan
ReadErrorUncaught ==
    /\ pc = "scan"
    /\ args.fn \in {"scan_image", "run_scan"}
    /\ \E e \in {"PermissionError", "OSError"} : out' = Raise(e)
    /\ pc' = "raised"
    /\ UNCHANGED <<data, args, target, chunk_size, MIN_CONFIDENCE, offset, analyzed,
                   results, walk, stdout>>

\* scan_file's except clauses: opening or reading the target fails, a
\* diagnostic is printed and the generator ends; the scan returns what it has
ReadError ==
    /\ pc = "scan"
    /\ args.fn \in {"scan_image", "run_scan"}
    /\ \E e \in {"Permission denied", "Cannot read"} : stdout' = Append(stdout, e)
    /\ pc' = "done"
    /\ out' = results
    /\ UNCHANGED <<data, args, target, chunk_size, MIN_CONFIDENCE, offset, analyzed,
                   results, walk>>

\* one file of `for fpath, offset, slack_data in scan_slack_space(target)` in
\* scan_slack; chunk_size holds the cluster size of the volume. A file is
\* named by its position in the walk.
ScanSlackStep ==
    /\ pc = "scan"
    /\ args.fn = "scan_slack"
    /\ IF walk = <<>>
          THEN /\ pc' = "done"
               /\ out' = results
               /\ UNCHANGED <<data, offset, analyzed, results, walk>>
          ELSE LET content == Head(walk)
                   fpath   == Len(target) - Len(walk) + 1
                   slack   == file_slack_data(content, chunk_size)
               IN  /\ walk' = Tail(walk)
                   /\ IF slack = <<>>
                         THEN UNCHANGED <<data, offset, analyzed, results>>
                         ELSE LET result == [source_file |-> fpath] @@
                                            analyze_region(slack, Len(content))
                              IN  /\ data' = slack
                                  /\ offset' = Len(content)
                                  /\ analyzed' = Append(analyzed, result)
                                  /\ results' = collect(results, result, MIN_CONFIDENCE)
                   /\ UNCHANGED <<pc, out>>
    /\ UNCHANGED <<args, target, chunk_size, MIN_CONFIDENCE, stdout>>

Next == Start \/ ScanImageStep \/ RunScanStep \/ ReadError \/ ScanSlackStep

-----------------------------------------------------------------------------
(* The scans on files and directories assembled from sample contents       *)

\* the longest file, in parts, and the longest directory walk, in files
MaxParts == 2
MaxFiles == 2

RECURSIVE SeqsUpTo(_, _)
\* the sequences over S of length at most n
SeqsUpTo(S, n) ==
    IF n = 0 THEN {<<>>}
    ELSE LET shorter == SeqsUpTo(S, n - 1)
         IN  shorter \cup {Append(q, x) : q \in shorter, x \in S}

\* 64-byte stretches of zero fill, one fill, the alternating pattern and
\* unwiped content
FileParts ==
    {Fill(0, 64), Fill(255, 64), Cycle(<<170, 85>>, 64), Uniform(64)}

SmallFiles == {Concat(parts) : parts \in SeqsUpTo(FileParts, MaxParts)}

\* a file of random fill and a file overwritten half with zeros, half at random
RandomFile == Uniform(512)
TwoPassFile == Fill(0, 1024) \o Uniform(1024) \o Fill(0, 64)

\* a file of a zero-filled stretch, a zero-filled stretch with one byte left
\* over and unwiped content
MixedFile == Fill(0, 255) \o <<1>> \o Uniform(128)

\* a file of zeros followed by a pattern of 16 byte values, read as one region
UnratedFile == Fill(0, 1024) \o Cycle([i \in 1..16 |-> i - 1], 1024) \o Fill(0, 64)

\* the targets with the chunk sizes they are read in
ScanTargets ==
    (SmallFiles \X {64, 128})
        \cup {<<RandomFile, 256>>, <<TwoPassFile, 2048>>, <<MixedFile, 128>>,
              <<UnratedFile, 2112>>}

\* files with and without slack in clusters of 128 bytes
SlackFiles ==
    {<<>>, Fill(0, 64), Fill(0, 128), Fill(0, 64) \o Fill(255, 96),
     Cycle(<<170, 85>>, 200)}

Thresholds == {0 - 100, 0, DefaultMinConfidence, 9000, 10000}

Init ==
    /\ pc = "main"
    /\ MIN_CONFIDENCE = DefaultMinConfidence
    /\ \/ /\ \E t \in ScanTargets : target = t[1] /\ chunk_size = t[2]
          /\ \/ args \in [fn : {"scan_image"}, min_conf : Thresholds]
             \/ args \in [fn : {"run_scan"}, min_conf : Thresholds,
                           limit_mb : {0, 1}, bytes_read : {0}]
          /\ walk = <<>>
       \/ /\ target \in SeqsUpTo(SlackFiles, MaxFiles)
          /\ chunk_size = 128
          /\ args \in [fn : {"scan_slack"}, min_conf : Thresholds]
          /\ walk = target
    /\ data = <<>>
    /\ out = <<>>
    /\ offset = 0
    /\ analyzed = <<>>
    /\ results = <<>>
    /\ stdout = <<>>

Spec == Init /\ [][Next]_vars

-----------------------------------------------------------------------------
(* The single-statistic detectors on their own: calculate_entropy,         *)
(* chi_square_test, detect_zero_pattern and detect_one_pattern applied to  *)
(* the buffers below                                                       *)

\* the longest buffer of which every content over ShortBytes is tried
MaxShort == 3

ShortBytes == {0, 255, 7}

ShortBuffers == SeqsUpTo(ShortBytes, MaxShort)

\* bytes(i % k for i in range(n)): the byte values below k in turn
Ramp(k, n) == [i \in 1..n |-> (i - 1) % k]

\* buffers around the lengths 128 and 256, filled with one byte value, with
\* all byte values in turn, or with zeros followed by ones
SizedBuffers ==
    {Fill(b, n) : b \in ShortBytes, n \in {100, 128, 255, 256, 300}}
        \cup {Ramp(256, n) : n \in {100, 128, 255, 256, 300}}
        \cup {Fill(0, z) \o Fill(255, 200 - z) : z \in {1, 2, 100, 198, 199}}

\* four rounds of all byte values followed by a surplus of the low values:
\* the chi-square statistic runs from 0 to above 400 with the surplus
SkewedBuffers ==
    {Ramp(256, 1024) \o Ramp(2, m) \o Ramp(128, r) :
        m \in {0, 7}, r \in {0, 640, 700, 719, 720, 760, 800}}

StatBuffers == ShortBuffers \cup SizedBuffers \cup SkewedBuffers

StatInit ==
    /\ pc = "call"
    /\ data \in StatBuffers
    /\ args = <<>>
    /\ out = <<>>
    /\ NoScan

CalculateEntropy ==
    /\ pc = "call"
    /\ out' = calculate_entropy(data)
    /\ pc' = "calculate_entropy"
    /\ UNCHANGED <<data, args, ScanVars>>

ChiSquareTest ==
    /\ pc = "call"
    /\ out' = chi_square_test(data)
    /\ pc' = "chi_square_test"
    /\ UNCHANGED <<data, args, ScanVars>>

DetectZeroPattern ==
    /\ pc = "call"
    /\ out' = detect_zero_pattern(data)
    /\ pc' = "detect_zero_pattern"
    /\ UNCHANGED <<data, args, ScanVars>>

DetectOnePattern ==
    /\ pc = "call"
    /\ out' = detect_one_pattern(data)
    /\ pc' = "detect_one_pattern"
    /\ UNCHANGED <<data, args, ScanVars>>

StatNext == CalculateEntropy \/ ChiSquareTest \/ DetectZeroPattern \/ DetectOnePattern

SpecStat == StatInit /\ [][StatNext]_vars

-----------------------------------------------------------------------------
(* detect_repeating_pattern on exact repetitions of a unit                 *)

\* the longest unit of which every content over UnitBytes is tried
MaxUnit == 3

UnitBytes == {7, 9}

\* the units: the short ones, b"\xAA\x55", b"haha-" and runs of one byte value
\* closed by another
Units ==
    (SeqsUpTo(UnitBytes, MaxUnit) \ {<<>>})
        \cup {<<170, 85>>, haha}
        \cup {Fill(7, k) \o <<9>> : k \in {20, 21, 22}}

\* a run of one byte value followed by other values, matched at period 1 in
\* 95.0 and in 94.5 percent of its positions, and buffers without a period
UnevenBuffers ==
    {Fill(7, 190) \o Ramp(256, 10), Fill(7, 189) \o Ramp(256, 11),
     Ramp(256, 300), Scrambled(200)}

RepeatingBuffers ==
    {Cycle(u, n) : u \in Units, n \in {100, 127, 128, 200, 440, 1024}} \cup UnevenBuffers

RepeatingInit ==
    /\ pc = "call"
    /\ data \in RepeatingBuffers
    /\ args = <<>>
    /\ out = <<>>
    /\ NoScan

DetectRepeatingPattern ==
    /\ pc = "call"
    /\ out' = detect_repeating_pattern(data)
    /\ pc' = "detect_repeating_pattern"
    /\ UNCHANGED <<data, args, ScanVars>>

RepeatingNext == DetectRepeatingPattern

SpecRepeating == RepeatingInit /\ [][RepeatingNext]_vars

-----------------------------------------------------------------------------
(* analyze_region on short buffers and on the generated samples            *)

Samples ==
    {gen_zero(4096), gen_one(2048), gen_alternating(200), gen_novelty_haha(1024)}
        \cup {gen_random(k, 4096) : k \in RandomKinds}
        \cup {gen_dod_3pass(k, 4096) : k \in RandomKinds}
        \cup {gen_gutmann_sim(k, 5120) : k \in RandomKinds}

\* regions of stretches of different entropy, whose sub-chunk entropies have
\* the variances 0.0, 0.2222, 0.75, 4.0 and 3.2
LayeredBuffers ==
    {Ramp(128, 2048),
     Ramp(256, 1024) \o Ramp(128, 1024),
     Fill(0, 1536) \o Cycle(<<1, 2, 3, 4>>, 1024),
     Fill(0, 1024) \o Ramp(16, 1024) \o Fill(0, 64),
     Fill(0, 512) \o Ramp(256, 512) \o Ramp(16, 4096) \o Fill(0, 512)}

AnalyzeBuffers == ShortBuffers \cup SizedBuffers \cup Samples \cup LayeredBuffers

AnalyzeInit ==
    /\ pc = "call"
    /\ data \in AnalyzeBuffers
    /\ args \in [offset : {0, 4096}]
    /\ out = <<>>
    /\ NoScan

AnalyzeRegion ==
    /\ pc = "call"
    /\ out' = analyze_region(data, args.offset)
    /\ pc' = "done"
    /\ UNCHANGED <<data, args, ScanVars>>

AnalyzeNext == AnalyzeRegion

SpecAnalyze == AnalyzeInit /\ [][AnalyzeNext]_vars

-----------------------------------------------------------------------------
(* scanner.py: the generator scan_file on its own; out holds the pairs     *)
(* yielded so far                                                          *)

\* the largest chunk size tried
MaxChunk == 3

\* offset += 1
advance_by_one(off, chunk) == off + 1

\* offset += len(chunk)
advance(off, chunk) == off + Len(chunk)

ScanFileInit ==
    /\ pc = "open"
    /\ target \in ShortBuffers \cup {Ramp(256, 7)}
    /\ chunk_size \in 1..MaxChunk
    /\ offset = 0
    /\ out = <<>>
    /\ data = <<>>
    /\ args = <<>>
    /\ MIN_CONFIDENCE = 0
    /\ analyzed = <<>>
    /\ results = <<>>
    /\ walk = <<>>
    /\ stdout = <<>>

\* open(file_path, "rb") succeeds
ScanFileOpen ==
    /\ pc = "open"
    /\ pc' = "read"
    /\ UNCHANGED <<data, args, out, target, chunk_size, MIN_CONFIDENCE, offset, analyzed,
                   results, walk, stdout>>

\* chunk = fh.read(chunk_size) returns bytes: yield offset, chunk
ScanFileYield ==
    /\ pc = "read"
    /\ read(target, offset, chunk_size) # <<>>
    /\ data' = read(target, offset, chunk_size)
    /\ out' = Append(out, <<offset, data'>>)
    /\ offset' = advance(offset, data')
    /\ UNCHANGED <<pc, args, target, chunk_size, MIN_CONFIDENCE, analyzed, results, walk,
                   stdout>>

\* if not chunk: break
ScanFileEnd ==
    /\ pc = "read"
    /\ read(target, offset, chunk_size) = <<>>
    /\ pc' = "returned"
    /\ UNCHANGED <<data, args, out, target, chunk_size, MIN_CONFIDENCE, offset, analyzed,
                   results, walk, stdout>>

\* open or fh.read raises PermissionError or another OSError: the diagnostic
\* is printed and the generator returns
ScanFileError ==
    /\ pc \in {"open", "read"}
    /\ \E e \in {"Permission denied", "Cannot read"} : stdout' = Append(stdout, e)
    /\ pc' = "returned"
    /\ UNCHANGED <<data, args, out, target, chunk_size, MIN_CONFIDENCE, offset, analyzed,
                   results, walk>>

ScanFileNext == ScanFileOpen \/ ScanFileYield \/ ScanFileEnd \/ ScanFileError

SpecScanFile == ScanFileInit /\ [][ScanFileNext]_vars

-----------------------------------------------------------------------------
(* detect_multi_pass on regions assembled from zones of 32 bytes, with     *)
(* sub-chunks of 16 and of 32 bytes                                        *)

\* the longest region, in zones
MaxZones == 4

\* zones of entropy 0.0 (of zeros and of ones), 1.0 and 5.0
ZoneKinds == {Fill(0, 32), Fill(255, 32), Ramp(2, 32), Ramp(32, 32)}

\* what follows the last zone: nothing, or 3 bytes
ZoneTails == {<<>>, <<1, 2, 3>>}

ZonedBuffers ==
    {Concat(zones) \o tail : zones \in SeqsUpTo(ZoneKinds, MaxZones), tail \in ZoneTails}

MultiPassInit ==
    /\ pc = "call"
    /\ data \in ZonedBuffers
    /\ args \in [chunk_size : {16, 32}]
    /\ out = <<>>
    /\ NoScan

DetectMultiPass ==
    /\ pc = "call"
    /\ out' = detect_multi_pass(data, args.chunk_size)
    /\ pc' = "detect_multi_pass"
    /\ UNCHANGED <<data, args, ScanVars>>

MultiPassNext == DetectMultiPass

SpecMultiPass == MultiPassInit /\ [][MultiPassNext]_vars

-----------------------------------------------------------------------------
(* detect_multi_pass from the entropies of its sub-chunks on: the mean,    *)
(* the variance, the phase labels and the confidence                       *)

\* the longest list of sub-chunk entropies, beside the lists of 3 equal ones
MaxEntropies == 4

\* sub-chunk entropies 0.0, 0.09, 1.0, 2.0, 4.0, 7.875 and 8.0
BandEntropies == {0, 900, 10000, 20000, 40000, 78750, 80000}

\* 3 sub-chunks of the same entropy, for every entropy from 0.0 to 8.0, and the
\* lists of 3 to MaxEntropies entropies of BandEntropies
EntropyLists ==
    {<<e, e, e>> : e \in 0..80000}
        \cup {es \in SeqsUpTo(BandEntropies, MaxEntropies) : Len(es) >= 3}

PhasesInit ==
    /\ pc = "entropies"
    /\ data = <<>>
    /\ args \in [entropies : EntropyLists]
    /\ out = <<>>
    /\ NoScan

MultiPassStats ==
    /\ pc = "entropies"
    /\ out' = multi_pass_stats(args.entropies)
    /\ pc' = "multi_pass_stats"
    /\ UNCHANGED <<data, args, ScanVars>>

PhasesNext == MultiPassStats

SpecPhases == PhasesInit /\ [][PhasesNext]_vars

-----------------------------------------------------------------------------
(* Claims                                                                  *)

\* The guards of the classifier's rules in their stated order, evaluated on the
\* inputs a, and the algorithm each rule returns
RuleGuards(a) ==
    LET ps    == {a.multi.phases[i] : i \in DOMAIN a.multi.phases}
        multi == a.multi.confidence >= 7000
        both  == "zeros" \in ps /\ "random" \in ps
    IN  <<a.zero_conf >= 9900,
          a.one_conf >= 9900,
          a.entropy >= 75000 /\ a.chi.is_random,
          a.repeating.found,
          multi /\ both /\ ("ones" \in ps \/ a.multi.entropy_variance > 35000),
          multi /\ both,
          multi /\ Cardinality(ps) >= 4,
          TRUE>>

RuleAlgorithms ==
    <<"simple_zero", "simple_one", "random_only", "alternating_pattern",
      "dod_5220_7pass", "dod_5220_3pass", "gutmann_35pass", "unknown">>

\* C1: classify_wiping_algorithm is an ordered first-match cascade: its result
\* is the algorithm of the first rule, in the order zero, one, random,
\* repeating, multi-pass (7-pass, 3-pass, Gutmann), unknown, whose guard holds;
\* so zero_conf >= 99.0 gives simple_zero whatever the other inputs are.
C1_FirstMatchCascade ==
    (pc = "done") =>
        LET g == RuleGuards(args)
        IN  \E i \in DOMAIN g :
                /\ g[i]
                /\ \A j \in 1..(i - 1) : ~g[j]
                /\ out.algorithm = RuleAlgorithms[i]

\* C1 witness: a zero-fill verdict reached although the repeating rule and the
\* multi-pass rule both match as well
C1_Witness ==
    /\ pc = "done"
    /\ args.zero_conf >= 9900
    /\ args.repeating.found
    /\ args.multi.confidence >= 7000
    /\ {"zeros", "random"} \subseteq phase_set_of(args.multi)
    /\ out.algorithm = "simple_zero"

\* the threshold in effect once the scan has started
Threshold == threshold_of(args.fn, args, MIN_CONFIDENCE)

Accepted(r) == r.pattern_type # "unknown" /\ r.confidence >= Threshold

\* C2: the detection list of a scan holds exactly the analyzed regions' records
\* with pattern_type != unknown and confidence >= the threshold, in the order
\* in which the regions were analyzed.
C2_DetectionsAreAcceptedRecords ==
    (pc # "main") => results = SelectSeq(analyzed, Accepted)

\* C2 witness: a finished scan that analyzed an accepted region, a region
\* rejected for its confidence and a region rejected as unknown
C2_Witness ==
    /\ pc = "done"
    /\ \E i \in DOMAIN analyzed : Accepted(analyzed[i])
    /\ \E i \in DOMAIN analyzed :
           analyzed[i].pattern_type # "unknown" /\ analyzed[i].confidence < Threshold
    /\ \E i \in DOMAIN analyzed : analyzed[i].pattern_type = "unknown"
    /\ Len(results) >= 1

\* C4: analyze_region returns a record and does not raise, for every buffer,
\* the empty one and those shorter than 128, 256 or 2048 bytes included; for
\* the empty buffer the record has size 0, entropy 0.0, zero and one
\* confidence 0.0, pattern_type unknown, algorithm unknown, confidence 0.0.
C4_AlwaysARecord ==
    (pc = "done") =>
        /\ ~Raised(out)
        /\ out.size = Len(data)
        /\ out.offset = args.offset
        /\ data = <<>> =>
               /\ out.size = 0
               /\ out.entropy = 0
               /\ out.zero_confidence = 0
               /\ out.one_confidence = 0
               /\ out.pattern_type = "unknown"
               /\ out.algorithm = "unknown"
               /\ out.confidence = 0

\* C4 witness: the record returned for the empty buffer
C4_Witness ==
    /\ pc = "done"
    /\ data = <<>>
    /\ ~Raised(out)
    /\ out.algorithm = "unknown"

\* C5 as stated: analyzing an all-zero region of length 1 yields a
\* low-confidence unknown classification, not a fault.
C5_OneZeroByteIsUnknown ==
    (pc = "done" /\ data = <<0>>) =>
        /\ ~Raised(out)
        /\ out.algorithm = "unknown"
        /\ out.pattern_type = "unknown"

\* C5 amended: analyzing an all-zero region of length 1 yields, without a
\* fault, the zero-fill classification: pattern_type zero_fill, algorithm
\* simple_zero, confidence 100.0.
C5_OneZeroByteIsZeroFill ==
    (pc = "done" /\ data = <<0>>) =>
        /\ ~Raised(out)
        /\ out.pattern_type = "zero_fill"
        /\ out.algorithm = "simple_zero"
        /\ out.confidence = 10000

\* C5 witness: the one-byte all-zero region analyzed, its zero confidence 100.0
C5_Witness ==
    /\ pc = "done"
    /\ data = <<0>>
    /\ out.zero_confidence = 10000

\* C6: analyzing a buffer of 10 contiguous equal-size zones alternating among
\* zero fill, one fill and random bytes yields at least 4 distinct phase
\* labels and the algorithm gutmann_35pass with a confidence of at most 70.0.
C6_TenZonesAreGutmann ==
    (pc = "done" /\ data \in {gen_gutmann_sim(k, 5120) : k \in RandomKinds}) =>
        /\ Cardinality(phase_set_of(out.multi_pass)) >= 4
        /\ out.algorithm = "gutmann_35pass"
        /\ out.confidence <= 7000

\* p is a period of d: d repeats its first p bytes exactly
IsPeriod(d, p) == \A i \in (p + 1)..Len(d) : d[i] = d[i - p]

MinimalPeriod(d) ==
    CHOOSE p \in 1..Len(d) : IsPeriod(d, p) /\ \A q \in 1..(p - 1) : ~IsPeriod(d, q)

\* the positions i in r..len(d)-1 with d[i] == d[i % r], counted
MatchCount(d, r) ==
    Len(SelectSeq([i \in 1..(Len(d) - r) |-> i + r],
                  LAMBDA j : d[j] = d[((j - 1) % r) + 1]))

\* detect_repeating_pattern has run on a buffer of n >= 128 bytes that is an
\* exact repetition of p bytes, p its minimal period, with p < min(65, n // 4)
\* and (n - p) / n >= 0.95
C7Case(p) ==
    /\ pc = "detect_repeating_pattern"
    /\ Len(data) >= 128
    /\ p = MinimalPeriod(data)
    /\ p < Min(65, Len(data) \div 4)
    /\ (Len(data) - p) * 100 >= 95 * Len(data)

\* C7 as stated: on such a buffer detect_repeating_pattern reports found = true,
\* period = p and sample = the first p bytes.
C7_ReportsMinimalPeriod ==
    \A p \in 1..64 :
        C7Case(p) =>
            /\ out.found
            /\ out.period = Some(p)
            /\ out.pattern = Some(hex(SubSeq(data, 1, p)))

\* What the code does on such a buffer: it reports found = true with the first
\* period q of the highest match count and sample = the first q bytes; q = p
\* when every period below p matches fewer than n - p positions, q < p
\* otherwise.
C7_ReportsDominantPeriod ==
    \A p \in 1..64 :
        C7Case(p) =>
            /\ out.found
            /\ \E q \in 1..p :
                  /\ out.period = Some(q)
                  /\ out.pattern = Some(hex(SubSeq(data, 1, q)))
                  /\ \A r \in 1..p : MatchCount(data, r) <= MatchCount(data, q)
                  /\ \A r \in 1..(q - 1) : MatchCount(data, r) < MatchCount(data, q)
                  /\ q = p <=> \A r \in 1..(p - 1) : MatchCount(data, r) < Len(data) - p

\* b"haha-" filling 1024 bytes reported with period 5
C7_Witness ==
    /\ C7Case(5)
    /\ data = gen_novelty_haha(1024)
    /\ out.found
    /\ out.period = Some(5)

\* the number of bytes of d equal to b
Occurrences(d, b) == Len(SelectSeq(d, LAMBDA x : x = b))

\* C8: chi_square_test on a buffer of fewer than 256 bytes, whatever its
\* content, returns the sentinel (chi_square 0.0, is_random false, the "too
\* short" bucket) and does not raise.
C8_ShortBufferSentinel ==
    (pc = "chi_square_test" /\ Len(data) < 256) =>
        /\ ~Raised(out)
        /\ out.chi_square = 0
        /\ out.is_random = FALSE
        /\ out.p_estimate = "n/a (too short)"

\* C8 witness: the sentinel returned for 255 bytes in which every byte value
\* but one occurs once
C8_Witness ==
    /\ pc = "chi_square_test"
    /\ data = Ramp(256, 255)
    /\ out = too_short

\* C9 as stated: for a buffer of at least 256 bytes, is_random is true if and
\* only if the returned chi_square value is less than 310.
C9_IsRandomIffReturnedBelow310 ==
    (pc = "chi_square_test" /\ Len(data) >= 256) =>
        (out.is_random <=> out.chi_square < 31000)

\* C9 amended: for a buffer of at least 256 bytes, is_random is decided on the
\* statistic before it is rounded: when is_random is true the returned
\* chi_square is at most 310.0, when is_random is false it is at least 310.0.
C9_IsRandomBeforeRounding ==
    (pc = "chi_square_test" /\ Len(data) >= 256) =>
        /\ out.is_random => out.chi_square <= 31000
        /\ ~out.is_random => out.chi_square >= 31000

\* C9 witness: a statistic in [309.995, 310) is returned as 310.0 with
\* is_random true
C9_Witness ==
    /\ pc = "chi_square_test"
    /\ Len(data) >= 256
    /\ out.is_random
    /\ out.chi_square = 31000

\* C10: detect_zero_pattern / detect_one_pattern return the percentage, rounded
\* to 2 decimals, of the bytes equal to 0x00 / 0xFF; it lies within [0, 100],
\* is 100.0 for a non-empty buffer of the target byte only and 0.0 for the
\* empty buffer.
C10_PercentageOfTargetByte ==
    \A t \in {<<"detect_zero_pattern", 0>>, <<"detect_one_pattern", 255>>} :
        (pc = t[1]) =>
            /\ out \in 0..10000
            /\ data = <<>> => out = 0
            \* out / 100 is within 0.005 of 100 * occurrences / len
            /\ data # <<>> =>
                   /\ 2 * (out * Len(data) - 10000 * Occurrences(data, t[2])) <= Len(data)
                   /\ 2 * (10000 * Occurrences(data, t[2]) - out * Len(data)) <= Len(data)
            /\ (data # <<>> /\ \A i \in DOMAIN data : data[i] = t[2]) => out = 10000

\* C10 witness: a percentage that needed rounding, 2 zero bytes in 3
C10_Witness ==
    /\ pc = "detect_zero_pattern"
    /\ Len(data) = 3
    /\ Occurrences(data, 0) = 2
    /\ out = 6667

\* C11: calculate_entropy returns a value in [0.0, 8.0] for every byte
\* sequence: 0.0 for the empty sequence and for a sequence of one repeated
\* value, 8.0 for 256 bytes holding each value exactly once.
C11_EntropyRange ==
    (pc = "calculate_entropy") =>
        /\ out \in 0..80000
        /\ data = <<>> => out = 0
        /\ (\A i \in DOMAIN data : data[i] = data[1]) => out = 0
        /\ (Len(data) = 256 /\ \A b \in 0..255 : Occurrences(data, b) = 1) => out = 80000

\* C11 witness: the entropy 8.0 of the 256 byte values in turn
C11_Witness ==
    /\ pc = "calculate_entropy"
    /\ data = Ramp(256, 256)
    /\ out = 80000

\* the chunks of the pairs yielded so far, concatenated in order
YieldedBytes == Concat([i \in DOMAIN out |-> out[i][2]])

\* C12: scan_file yields (offset, chunk) pairs such that the first offset is 0,
\* each later offset is the previous offset plus the previous chunk's length,
\* every chunk is non-empty and at most chunk_size bytes, the chunks
\* concatenated in order are the bytes read from the file, and the sequence
\* ends at the first empty read (without a failure: at the end of the file).
C12_ScanFilePairs ==
    (pc \in {"open", "read", "returned"}) =>
        /\ out # <<>> => out[1][1] = 0
        /\ \A i \in 2..Len(out) : out[i][1] = out[i - 1][1] + Len(out[i - 1][2])
        /\ \A i \in DOMAIN out : Len(out[i][2]) \in 1..chunk_size
        /\ YieldedBytes = SubSeq(target, 1, Len(YieldedBytes))
        /\ (pc = "returned" /\ stdout = <<>>) => YieldedBytes = target
        /\ (pc = "read" /\ read(target, Len(YieldedBytes), chunk_size) = <<>>) =>
               ~ENABLED ScanFileYield

\* C12 witness: a file read to its end in three chunks, the last one short
C12_Witness ==
    /\ pc = "returned"
    /\ stdout = <<>>
    /\ Len(out) = 3
    /\ Len(out[3][2]) < chunk_size
    /\ out[3][1] = 2 * chunk_size

\* C13: when opening or reading the target fails, scan_file ends the sequence
\* with a printed diagnostic and raises nothing; no pair is yielded for the
\* failed read, the pairs yielded before it stay valid (the regions analyzed
\* are the chunks of the file before the failure), and scan_image returns the
\* detections collected up to that point.
C13_ReadFailureEndsTheScan ==
    /\ pc \in {"main", "scan", "done"}
    /\ (stdout # <<>> /\ args.fn \in {"scan_image", "run_scan"}) =>
           /\ pc = "done"
           /\ Len(stdout) = 1
           /\ \A i \in DOMAIN analyzed :
                  /\ analyzed[i].offset = (i - 1) * chunk_size
                  /\ analyzed[i] = analyze_region(read(target, analyzed[i].offset, chunk_size),
                                                  analyzed[i].offset)
           /\ offset = IF analyzed = <<>> THEN 0
                        ELSE analyzed[Len(analyzed)].offset + analyzed[Len(analyzed)].size
           /\ results = SelectSeq(analyzed, Accepted)
           /\ args.fn = "scan_image" => out = results

\* C13 witness: scan_image ended by a failed read after a detection, with
\* part of the file unread
C13_Witness ==
    /\ pc = "done"
    /\ stdout # <<>>
    /\ args.fn = "scan_image"
    /\ results # <<>>
    /\ out = results
    /\ offset < Len(target)

\* the fixed label of every algorithm but alternating_pattern
FixedLabels ==
    [simple_zero    |-> "Zero-fill (0x00)",
     simple_one     |-> "One-fill (0xFF)",
     random_only    |-> "Random-fill (single pass)",
     dod_5220_7pass |-> "DoD 5220.22-M 7-pass / RCMP TSSIT",
     dod_5220_3pass |-> "DoD 5220.22-M 3-pass",
     gutmann_35pass |-> "Gutmann 35-pass (estimated)",
     unknown        |-> "Unknown / unrecognized pattern"]

\* C14: every classification carries the fixed label of its algorithm, and for
\* alternating_pattern the label "Repeating pattern (period=P, hex=H)" with P
\* the detected period and H the first 16 hex characters of the sample; no
\* other algorithm name or label is returned.
C14_LabelOfAlgorithm ==
    (pc = "done") =>
        IF out.algorithm = "alternating_pattern"
            THEN LET sample == The(args.repeating.pattern)
                 IN  out.label = <<"Repeating pattern (period=", The(args.repeating.period),
                                   ", hex=", [i \in 1..Min(16, Len(sample)) |-> sample[i]],
                                   ")">>
            ELSE /\ out.algorithm \in DOMAIN FixedLabels
                 /\ out.label = <<FixedLabels[out.algorithm]>>

\* C14 witness: a repeating pattern of 9 bytes, its 18 hex characters cut to 16
\* in the label
C14_Witness ==
    /\ pc = "done"
    /\ out.algorithm = "alternating_pattern"
    /\ Len(The(args.repeating.pattern)) = 18
    /\ Len(out.label[4]) = 16

\* C15: analyze_region derives pattern_type by the priority zero_fill if
\* zero_conf >= 99.0, else one_fill if one_conf >= 99.0, else random if
\* entropy >= 7.5 and chi.is_random, else repeating if repeating.found, else
\* multi_pass if the multi-pass confidence is >= 50.0, else unknown.
C15_PatternTypePriority ==
    (pc = "done") =>
        out.pattern_type =
            IF out.zero_confidence >= 9900 THEN "zero_fill"
            ELSE IF out.one_confidence >= 9900 THEN "one_fill"
            ELSE IF out.entropy >= 75000 /\ out.chi_is_random THEN "random"
            ELSE IF out.repeating.found THEN "repeating"
            ELSE IF out.multi_pass.confidence >= 5000 THEN "multi_pass"
            ELSE "unknown"

\* C15 witness: a region typed multi_pass on a multi-pass confidence of 50.0
C15_Witness ==
    /\ pc = "done"
    /\ out.pattern_type = "multi_pass"
    /\ out.multi_pass.confidence = 5000
    /\ ~out.repeating.found

\* rules 1-4 of the classifier do not match the inputs a
NoSinglePassRule(a) ==
    /\ a.zero_conf < 9900
    /\ a.one_conf < 9900
    /\ ~(a.entropy >= 75000 /\ a.chi.is_random)
    /\ ~a.repeating.found

\* C16: when rules 1-4 do not match, the multi-pass confidence is >= 70.0 and
\* the phase set holds both zeros and random, the classifier returns
\* dod_5220_7pass if the phase set holds ones or entropy_variance > 3.5, and
\* dod_5220_3pass otherwise, with the multi-pass confidence as confidence.
C16_DodRules ==
    (/\ pc = "done"
     /\ NoSinglePassRule(args)
     /\ args.multi.confidence >= 7000
     /\ \E i, j \in DOMAIN args.multi.phases :
            args.multi.phases[i] = "zeros" /\ args.multi.phases[j] = "random") =>
        /\ out.algorithm =
               IF \/ \E i \in DOMAIN args.multi.phases : args.multi.phases[i] = "ones"
                  \/ args.multi.entropy_variance > 35000
                   THEN "dod_5220_7pass" ELSE "dod_5220_3pass"
        /\ out.confidence = args.multi.confidence

\* C16 witness: the 3-pass verdict at an entropy variance of exactly 3.5
C16_Witness ==
    /\ pc = "done"
    /\ NoSinglePassRule(args)
    /\ args.multi.entropy_variance = 35000
    /\ out.algorithm = "dod_5220_3pass"
    /\ out.confidence = 9000

\* C17: for classifier inputs within their ranges (entropy in [0, 8], the
\* confidences in [0, 100]) the returned confidence lies in [0, 100] and is
\* 0.0 exactly when the algorithm is unknown.
C17_ConfidenceRange ==
    (pc = "done") =>
        /\ out.confidence \in 0..10000
        /\ out.confidence = 0 <=> out.algorithm = "unknown"

\* C17 witness: the Gutmann verdict, its confidence cut from 100.0 to 70.0
C17_Witness ==
    /\ pc = "done"
    /\ out.algorithm = "gutmann_35pass"
    /\ args.multi.confidence = 10000
    /\ out.confidence = 7000

\* C18: the score of a candidate period p is the fraction, among the bytes at
\* index i >= p, of those equal to data[i mod p]; so a buffer that is exactly
\* periodic with period p scores 1.0 for p and is reported with confidence
\* 100.0.
C18_PeriodicBufferScoresFull ==
    \A p \in 1..64 :
        (/\ pc = "detect_repeating_pattern"
         /\ Len(data) >= 128
         /\ p = MinimalPeriod(data)
         /\ p < Min(65, Len(data) \div 4)) =>
            /\ MatchCount(data, p) = Len(data) - p
            /\ out.found
            /\ out.confidence = 10000

\* C19: in every result of detect_repeating_pattern, found is true only if
\* confidence >= 95.0 and the region has at least 128 bytes; when found, period
\* is an integer in [1, 64] below len(data) // 4 and the sample is the first
\* `period` bytes of the data, hex-encoded; when not found, period and sample
\* are absent.
C19_RepeatingResultShape ==
    (pc = "detect_repeating_pattern") =>
        /\ ~Raised(out)
        /\ out.confidence \in 0..10000
        /\ out.found => (out.confidence >= 9500 /\ Len(data) >= 128)
        /\ out.found =>
               \E q \in 1..64 :
                   /\ q < Len(data) \div 4
                   /\ out.period = Some(q)
                   /\ out.pattern = Some(hex(SubSeq(data, 1, q)))
        /\ ~out.found => (out.period = None /\ out.pattern = None)

\* C19 witness: a pattern found at a confidence of exactly 95.0
C19_Witness ==
    /\ pc = "detect_repeating_pattern"
    /\ out.found
    /\ out.confidence = 9500
    /\ out.period = Some(1)

\* C20: detect_multi_pass returns the sentinel (confidence 0.0, empty phases,
\* entropy_variance 0.0) exactly when the region is shorter than 4 times the
\* sub-chunk size; for a longer region its confidence is one of 10, 50, 75, 90.
C20_MultiPassSentinel ==
    (pc = "detect_multi_pass") =>
        /\ ~Raised(out)
        /\ Len(data) < 4 * args.chunk_size =>
               out = [confidence |-> 0, phases |-> <<>>, entropy_variance |-> 0]
        /\ Len(data) >= 4 * args.chunk_size =>
               /\ out.confidence \in {1000, 5000, 7500, 9000}
               /\ out.phases # <<>>

\* C20 witness: a region of exactly 4 sub-chunks rated 75
C20_Witness ==
    /\ pc = "detect_multi_pass"
    /\ Len(data) = 4 * args.chunk_size
    /\ out.confidence = 7500

\* the sub-chunks detect_multi_pass takes the entropy of
Sampled == chunk_list(data, args.chunk_size, 0)

\* the call went past the length guard of detect_multi_pass
PastGuard == pc = "detect_multi_pass" /\ Len(data) >= 4 * args.chunk_size

\* C21: the sampled sub-chunks are the consecutive chunk_size-byte pieces of the
\* region, and what is left out of sampling is a trailing partial sub-chunk,
\* of fewer than chunk_size bytes.
C21_OnlyPartialTailLeftOut ==
    PastGuard =>
        /\ \A i \in DOMAIN Sampled :
               Sampled[i] = SubSeq(data, (i - 1) * args.chunk_size + 1, i * args.chunk_size)
        /\ Len(data) - Len(Sampled) * args.chunk_size < args.chunk_size

\* C30: past the length guard at least 3 sub-chunks are sampled, each of
\* exactly chunk_size bytes, and the mean and the variance are computed without
\* a division by zero.
C30_AtLeastThreeWholeSubChunks ==
    PastGuard =>
        /\ Len(Sampled) >= 3
        /\ \A i \in DOMAIN Sampled : Len(Sampled[i]) = args.chunk_size
        /\ ~Raised(out)

\* C30 witness: a region of exactly 4 sub-chunks, of which 3 are sampled
C30_Witness ==
    /\ PastGuard
    /\ Len(data) = 4 * args.chunk_size
    /\ Len(Sampled) = 3
    /\ out.confidence = 5000

\* a sub-chunk filled with a single byte value
SingleValued(c) == \A i \in DOMAIN c : c[i] = c[1]

\* C29: when every sampled sub-chunk is filled with a single byte value, of
\* zeros or of any other value, the phases are [zeros], the entropy variance is
\* 0.0 and the confidence is 10.0.
C29_FilledSubChunksAreZeros ==
    (PastGuard /\ \A i \in DOMAIN Sampled : SingleValued(Sampled[i])) =>
        out = [confidence |-> 1000, phases |-> <<"zeros">>, entropy_variance |-> 0]

\* C29 witness: sub-chunks of zeros and sub-chunks of ones sampled in turn
C29_Witness ==
    /\ PastGuard
    /\ \A i \in DOMAIN Sampled : SingleValued(Sampled[i])
    /\ Sampled[1][1] = 0 /\ Sampled[2][1] = 255 /\ Sampled[3][1] = 0
    /\ out.phases = <<"zeros">>

\* the sub-chunk entropies the statistics were taken from
Entropies == args.entropies

\* the label C22 gives a sub-chunk of entropy e (in 1/10000)
CascadeLabel(e) ==
    CASE e < 1000 -> "zeros"
      [] e >= 1000 /\ e > 78000 -> "random"
      [] e >= 1000 /\ e <= 78000 /\ 800 < e /\ e < 79000 -> "ones_or_pattern"
      [] OTHER -> "mixed"

\* the set of labels in a phase sequence
LabelSet(phases) == {phases[i] : i \in DOMAIN phases}

\* C22: each sub-chunk is labelled from its entropy e by the ordered checks
\* e < 0.1 zeros, else e > 7.8 random, else 0.08 < e < 7.9 ones_or_pattern, else
\* mixed; an entropy in (0.08, 0.1) is labelled zeros and one in (7.8, 7.9)
\* random.
C22_LabelCascade ==
    (pc = "multi_pass_stats") =>
        /\ LabelSet(out.phases) = {CascadeLabel(Entropies[i]) : i \in DOMAIN Entropies}
        /\ out.phases[1] = CascadeLabel(Entropies[1])
        /\ out.phases[Len(out.phases)] = CascadeLabel(Entropies[Len(Entropies)])
        /\ \A i \in DOMAIN Entropies :
              /\ (800 < Entropies[i] /\ Entropies[i] < 1000) => "zeros" \in LabelSet(out.phases)
              /\ (78000 < Entropies[i] /\ Entropies[i] < 79000) => "random" \in LabelSet(out.phases)

\* C22 witness: sub-chunks of entropy 0.09 and 7.875 only, labelled zeros and
\* random
C22_Witness ==
    /\ pc = "multi_pass_stats"
    /\ Entropies = <<900, 78750, 900>>
    /\ out.phases = <<"zeros", "random", "zeros">>

\* the positions at which a run of equal consecutive labels starts
RunStarts(labels) == {i \in DOMAIN labels : i = 1 \/ labels[i] # labels[i - 1]}

\* the k-th smallest element of the set of positions S
Nth(S, k) == CHOOSE i \in S : Cardinality({j \in S : j <= i}) = k

\* labels with every run of equal consecutive labels collapsed to one entry
Collapsed(labels) ==
    [k \in 1..Cardinality(RunStarts(labels)) |-> labels[Nth(RunStarts(labels), k)]]

\* C23: the phases are the per-sub-chunk labels with every run of equal
\* consecutive labels collapsed to one entry, in order; no two adjacent
\* phases are equal, and the sequence is not empty.
C23_PhasesAreCollapsedLabels ==
    (pc = "multi_pass_stats") =>
        /\ out.phases = Collapsed([i \in DOMAIN Entropies |-> phase_label(Entropies[i])])
        /\ \A i \in 1..(Len(out.phases) - 1) : out.phases[i] # out.phases[i + 1]
        /\ out.phases # <<>>

\* C23 witness: the labels zeros, zeros, random, random collapsed to two phases
C23_Witness ==
    /\ pc = "multi_pass_stats"
    /\ Entropies = <<0, 900, 78750, 80000>>
    /\ out.phases = <<"zeros", "random">>

\* the entropies less the first one, in units of 0.005
Offsets == [i \in DOMAIN Entropies |-> (Entropies[i] - Entropies[1]) \div 50]

RECURSIVE SumOver(_, _)
SumOver(f, i) == IF i > Len(f) THEN 0 ELSE f[i] + SumOver(f, i + 1)

\* len(entropies)^2 times the population variance, in units of 0.005^2
ScaledVariance ==
    Len(Offsets) * SumOver([i \in DOMAIN Offsets |-> Offsets[i] * Offsets[i]], 1)
        - SumOver(Offsets, 1) * SumOver(Offsets, 1)

\* the population variance exceeds c tenths
VarianceAbove(c) == ScaledVariance > c * 4000 * Len(Offsets) * Len(Offsets)

\* C24: the confidence is 90 if the population variance of the sub-chunk
\* entropies is above 4.0, else 75 if above 2.0, else 50 if above 0.5, else 10,
\* so the variances 4.0, 2.0 and 0.5 themselves give 75, 50 and 10.
C24_ConfidenceSteps ==
    (pc = "multi_pass_stats") =>
        /\ \A i \in DOMAIN Entropies : (Entropies[i] - Entropies[1]) % 50 = 0
        /\ out.confidence = IF VarianceAbove(40) THEN 9000
                             ELSE IF VarianceAbove(20) THEN 7500
                             ELSE IF VarianceAbove(5) THEN 5000
                             ELSE 1000

\* C24 witness: entropies of variance exactly 4.0, rated 75
C24_Witness ==
    /\ pc = "multi_pass_stats"
    /\ Entropies = <<0, 40000, 0, 40000>>
    /\ out.entropy_variance = 40000
    /\ out.confidence = 7500

\* C27: no phase is mixed: every sub-chunk entropy from 0.0 to 8.0 is labelled
\* zeros, random or ones_or_pattern, so the phases hold at most 3 distinct labels.
C27_NeverMixed ==
    (pc = "multi_pass_stats") =>
        /\ LabelSet(out.phases) \subseteq {"zeros", "random", "ones_or_pattern"}
        /\ Cardinality(LabelSet(out.phases)) <= 3

\* C27 witness: the three labels in one phase sequence
C27_Witness ==
    /\ pc = "multi_pass_stats"
    /\ LabelSet(out.phases) = {"zeros", "random", "ones_or_pattern"}

\* C25: in every record of analyze_region pattern_type and algorithm agree:
\* zero_fill iff simple_zero, one_fill iff simple_one, random iff random_only,
\* repeating iff alternating_pattern; a DoD or Gutmann algorithm implies
\* multi_pass, and pattern_type unknown implies algorithm unknown.
C25_TypeAndAlgorithmAgree ==
    (pc = "done") =>
        /\ out.pattern_type = "zero_fill" <=> out.algorithm = "simple_zero"
        /\ out.pattern_type = "one_fill" <=> out.algorithm = "simple_one"
        /\ out.pattern_type = "random" <=> out.algorithm = "random_only"
        /\ out.pattern_type = "repeating" <=> out.algorithm = "alternating_pattern"
        /\ out.algorithm \in {"dod_5220_3pass", "dod_5220_7pass", "gutmann_35pass"}
               => out.pattern_type = "multi_pass"
        /\ out.pattern_type = "unknown" => out.algorithm = "unknown"

\* C25 witness: the 3-pass sample, typed multi_pass with a DoD algorithm
C25_Witness ==
    /\ pc = "done"
    /\ data \in {gen_dod_3pass(k, 4096) : k \in RandomKinds}
    /\ out.pattern_type = "multi_pass"
    /\ out.algorithm = "dod_5220_7pass"

\* the records the scan has analyzed that are typed multi_pass without an
\* algorithm
Unrated == {i \in DOMAIN analyzed :
               analyzed[i].pattern_type = "multi_pass" /\ analyzed[i].algorithm = "unknown"}

\* C26: with a threshold above 0 no accepted record has algorithm unknown: a
\* region typed multi_pass for which no multi-pass rule fires has confidence
\* 0.0 and is not reported; with a threshold of 0 or less it is reported.
C26_UnknownAlgorithmNeverReported ==
    (pc # "main") =>
        /\ Threshold > 0 => \A j \in DOMAIN results : results[j].algorithm # "unknown"
        /\ \A i \in Unrated :
              /\ analyzed[i].confidence = 0
              /\ analyzed[i].multi_pass.confidence >= 5000
              /\ (\E j \in DOMAIN results : results[j] = analyzed[i]) <=> Threshold <= 0

\* C26 witness: a finished scan with the default threshold that analyzed such a
\* region and reported nothing
C26_Witness ==
    /\ pc = "done"
    /\ Threshold = DefaultMinConfidence
    /\ Unrated # {}
    /\ results = <<>>

\* the multi-pass rule of the classifier is reached by the record r
MultiPassRuleReached(r) ==
    /\ r.zero_confidence < 9900
    /\ r.one_confidence < 9900
    /\ ~(r.entropy >= 75000 /\ r.chi_is_random)
    /\ ~r.repeating.found
    /\ r.multi_pass.confidence >= 7000

\* C28: no phase is ones, so in analyze_region, when the multi-pass rule is
\* reached with zeros and random among the phases, the algorithm is
\* dod_5220_7pass iff the reported entropy_variance is > 3.5 and dod_5220_3pass
\* otherwise.
C28_VarianceDecidesDod ==
    (pc = "done") =>
        /\ "ones" \notin LabelSet(out.multi_pass.phases)
        /\ (/\ MultiPassRuleReached(out)
            /\ {"zeros", "random"} \subseteq LabelSet(out.multi_pass.phases)) =>
               /\ out.algorithm = "dod_5220_7pass" <=> out.multi_pass.entropy_variance > 35000
               /\ out.algorithm = "dod_5220_3pass" <=> out.multi_pass.entropy_variance <= 35000

\* C28 witness: zeros, random and a third label among the phases and a variance
\* of 3.2: the 3-pass verdict
C28_Witness ==
    /\ pc = "done"
    /\ MultiPassRuleReached(out)
    /\ LabelSet(out.multi_pass.phases) = {"zeros", "random", "ones_or_pattern"}
    /\ out.multi_pass.entropy_variance = 32000
    /\ out.algorithm = "dod_5220_3pass"

====
